---- MODULE Spec2Model ----
(***************************************************************************)
(* Kaiten webhook server (src/webhooks.py): WebhookEvent.from_payload,     *)
(* WebhookProcessor (handler registry and process_event) and the POST      *)
(* endpoint of KaitenWebhookServer, run on one asyncio event loop.         *)
(***************************************************************************)
EXTENDS Naturals, Sequences, FiniteSets, TLC

\* ------------------------------------------------------------- bounds
\* Number of webhook deliveries in flight at once under Spec; SpecOverlap
\* lets one more overlap with them.
MaxReq == 1
\* Number of handler registrations (keyed and global together).
MaxRegs == 2

ReqIds == 1..MaxReq
\* The request slots of the state.
Slots == 1..(MaxReq + 1)

\* ------------------------------------------------- JSON-decoded values
\* What json.loads returns, tagged by Python type.
JNull == [t |-> "null"]
JNum == [t |-> "num"]
JList == [t |-> "list"]
JStr(s) == [t |-> "str", s |-> s]
JObj(m) == [t |-> "obj", m |-> m]
EmptyObj == JObj(<<>>)

\* A Python exception leaving an expression.
Raise(e) == [ok |-> FALSE, exc |-> e]
Return(v) == [ok |-> TRUE, v |-> v]

\* d.get(key, default): only a dict has .get.
PyGet(d, key, default) ==
    IF d.t = "obj"
    THEN Return(IF key \in DOMAIN d.m THEN d.m[key] ELSE default)
    ELSE Raise("AttributeError")

\* hash(v), as dict lookup needs it: lists and dicts are unhashable.
Hashable(v) == v.t \notin {"list", "obj"}

\* --------------------------------------------------------- WebhookEvent
\* datetime.now(): the server's clock at the call, never a payload field.
Now == "now"
NoEvent == [event |-> JNull, author |-> JNull, data |-> JNull,
            timestamp |-> ""]

\* A from_payload whose default kind is the 'unknown' of the endpoint's log
\* line.
from_payload_default_unknown(payload, now) ==
    LET e == PyGet(payload, "event", JStr("unknown"))
        d == PyGet(payload, "data", EmptyObj)
        a == IF d.ok THEN PyGet(d.v, "author", EmptyObj) ELSE d
    IN  IF ~e.ok THEN Raise(e.exc)
        ELSE IF ~a.ok THEN Raise(a.exc)
        ELSE Return([event |-> e.v, author |-> a.v, data |-> d.v,
                     timestamp |-> now])

\* WebhookEvent.from_payload: the three keyword arguments are evaluated in
\* source order; none of them checks the type of what .get returned.
from_payload(payload, now) ==
    LET e == PyGet(payload, "event", JStr(""))
        d == PyGet(payload, "data", EmptyObj)
        a == IF d.ok THEN PyGet(d.v, "author", EmptyObj) ELSE d
    IN  IF ~e.ok THEN Raise(e.exc)
        ELSE IF ~a.ok THEN Raise(a.exc)
        ELSE Return([event |-> e.v, author |-> a.v, data |-> d.v,
                     timestamp |-> now])

\* ------------------------------------------------------- request bodies
\* The request bodies the clients send, as their text.
BadText == "{"
BadUtf8 == "\\xff"
BodyList == "[]"
BodyEmpty == "{}"
BodyA == "{\"event\":\"a\"}"
BodyDataStr == "{\"data\":\"x\"}"
BodyAuthorStr == "{\"data\":{\"author\":\"bob\"}}"
BodyEventList == "{\"event\":[]}"

Bodies == {BadText, BadUtf8, BodyList, BodyEmpty, BodyA, BodyDataStr,
           BodyAuthorStr, BodyEventList}

\* request.json(): json.loads of the body bytes.
json_loads(body) ==
    CASE body = BadText -> Raise("JSONDecodeError")
      [] body = BadUtf8 -> Raise("UnicodeDecodeError")
      [] body = BodyList -> Return(JList)
      [] body = BodyEmpty -> Return(EmptyObj)
      [] body = BodyA -> Return(JObj("event" :> JStr("a")))
      [] body = BodyDataStr -> Return(JObj("data" :> JStr("x")))
      [] body = BodyAuthorStr ->
            Return(JObj("data" :> JObj("author" :> JStr("bob"))))
      [] body = BodyEventList -> Return(JObj("event" :> JList))

\* ------------------------------------------------------------- handlers
\* The kinds of callable a handler can be. A callable_object is an instance
\* with __call__ or a functools.partial of a plain function.
Forms == {"function", "coroutinefunction", "callable_object"}
\* The event types handlers are registered for.
Kinds == {"", "a"}

\* asyncio.iscoroutinefunction(handler)
iscoroutinefunction(h) == h = "coroutinefunction"
\* handler.__name__ exists: functions have it, callable instances and
\* functools.partial objects do not.
HasName(h) == h \in {"function", "coroutinefunction"}

\* What calling handler(event) without await can do. "returns_awaitable":
\* the call hands back a coroutine or future (an async __call__, a lambda
\* around a coroutine function) that nobody awaits.
SyncOutcomes == {"returns", "returns_awaitable", "raises", "raises_base",
                 "hangs"}
\* What an awaited coroutine that finishes can do.
AwaitOutcomes == {"returns", "raises", "raises_base"}

VARIABLES
    handlers,         \* WebhookProcessor._handlers: kind -> list of handlers
    global_handlers,  \* WebhookProcessor._global_handlers
    req,              \* per request slot: progress, body, response status
    task,             \* per request slot: the process_event call scheduled
    calls,            \* per request slot: handler invocations of its dispatch
    loop,             \* the task running on the event loop (0: loop is idle)
    payload,          \* SpecPure: the argument of from_payload
    result,           \* SpecPure: what from_payload(payload) gave
    hist,             \* SpecHistory: per request slot, how long the registry's
                      \* lists were when its process_event call began
    api               \* SpecApi: the latest call of the server's registration
                      \* methods, with what it returned

server == <<handlers, global_handlers, req, task, calls, loop>>
pure == <<payload, result>>
aside == <<pure, hist, api>>
vars == <<server, pure, hist, api>>

NoTask == [pc |-> "none", i |-> 0, event |-> NoEvent, fresh |-> TRUE]
NoReq == [st |-> "idle", body |-> "", status |-> 0, built |-> 0,
          scheduled |-> 0]

NotBuilt == [ok |-> FALSE, exc |-> ""]
NoHist == [k0 |-> 0, g0 |-> 0, n0 |-> 0]
NoCall == [op |-> "none", kind |-> "", func |-> "", ret |-> ""]

InitServer ==
    /\ handlers = <<>>
    /\ global_handlers = <<>>
    /\ req = [r \in Slots |-> NoReq]
    /\ task = [r \in Slots |-> NoTask]
    /\ calls = [r \in Slots |-> <<>>]
    /\ loop = 0
    /\ hist = [r \in Slots |-> NoHist]
    /\ api = NoCall

Init ==
    /\ InitServer
    /\ payload = EmptyObj
    /\ result = NotBuilt

Last(s) == s[Len(s)]

\* The handler invocation of dispatch r that has begun and not ended.
InProgress(r) ==
    calls[r] # <<>> /\ Last(calls[r]).st \in {"running", "blocked"}

\* A synchronous handler that never returns keeps the event loop: nothing
\* else on the loop runs again.
Blocked == \E r \in Slots : calls[r] # <<>> /\ Last(calls[r]).st = "blocked"

\* Task r may run now: the loop is idle, or r is the task running on it.
CanRun(r) == ~Blocked /\ loop \in {0, r}

RECURSIVE SumLen(_, _)
SumLen(f, S) ==
    IF S = {} THEN 0
    ELSE LET k == CHOOSE x \in S : TRUE
         IN  Len(f[k]) + SumLen(f, S \ {k})

NumRegs == SumLen(handlers, DOMAIN handlers) + Len(global_handlers)

\* ------------------------------------------------------------- registry
\* A registry that puts the newest handler first (list.insert(0, handler)).
with_handler_first(hs, event_type, handler) ==
    IF event_type \in DOMAIN hs
    THEN [hs EXCEPT ![event_type] = <<handler>> \o @]
    ELSE hs @@ (event_type :> <<handler>>)

\* self._handlers after lines 55-57: the kind's list is created if absent,
\* and the handler appended to it.
with_handler(hs, event_type, handler) ==
    IF event_type \in DOMAIN hs
    THEN [hs EXCEPT ![event_type] = Append(@, handler)]
    ELSE hs @@ (event_type :> <<handler>>)

register_handler(event_type, handler) ==
    /\ ~Blocked
    /\ handlers' = with_handler(handlers, event_type, handler)
    /\ UNCHANGED <<global_handlers, req, task, calls, loop>>
    /\ UNCHANGED aside

register_global_handler(handler) ==
    /\ ~Blocked
    /\ global_handlers' = Append(global_handlers, handler)
    /\ UNCHANGED <<handlers, req, task, calls, loop>>
    /\ UNCHANGED aside

\* ------------------------------------------------------------- endpoint
\* A client's request with body b reaches the server; it takes the lowest
\* free slot. The body is read by the endpoint.
Arrive(r, b) ==
    /\ req[r].st = "idle"
    /\ \A q \in Slots : q < r => req[q].st # "idle"
    /\ req' = [req EXCEPT ![r].st = "received", ![r].body = b]
    /\ UNCHANGED <<handlers, global_handlers, task, calls, loop>>
    /\ UNCHANGED aside

\* An endpoint that calls add_task before the event is built, so that a
\* failure of from_payload is answered 500 with the task already added.
webhook_result_scheduling_first(body, now) ==
    LET p == json_loads(body)
        logged == IF p.ok THEN PyGet(p.v, "event", JStr("unknown")) ELSE p
        ev == IF logged.ok THEN from_payload(p.v, now) ELSE logged
    IN  IF ~p.ok
        THEN [status |-> IF p.exc = "JSONDecodeError" THEN 400 ELSE 500,
              built |-> 0, scheduled |-> 0, event |-> NoEvent]
        ELSE IF ~logged.ok
        THEN [status |-> 500, built |-> 0, scheduled |-> 0, event |-> NoEvent]
        ELSE IF ~ev.ok
        THEN [status |-> 500, built |-> 1, scheduled |-> 1, event |-> NoEvent]
        ELSE [status |-> 200, built |-> 1, scheduled |-> 1, event |-> ev.v]

\* What webhook_handler does with a body: the status it answers, whether
\* from_payload ran, and the event it scheduled (if any).
webhook_result(body, now) ==
    LET p == json_loads(body)
        logged == IF p.ok THEN PyGet(p.v, "event", JStr("unknown")) ELSE p
        ev == IF logged.ok THEN from_payload(p.v, now) ELSE logged
    IN  IF ~p.ok
        THEN [status |-> IF p.exc = "JSONDecodeError" THEN 400 ELSE 500,
              built |-> 0, scheduled |-> 0, event |-> NoEvent]
        ELSE IF ~logged.ok
        THEN [status |-> 500, built |-> 0, scheduled |-> 0, event |-> NoEvent]
        ELSE IF ~ev.ok
        THEN [status |-> 500, built |-> 1, scheduled |-> 0, event |-> NoEvent]
        ELSE [status |-> 200, built |-> 1, scheduled |-> 1, event |-> ev.v]

\* The endpoint, from reading the body to its return or raise. The server
\* then writes the response without the endpoint's task giving up the loop.
webhook_handler(r) ==
    /\ ~Blocked
    /\ loop = 0
    /\ req[r].st = "received"
    /\ LET res == webhook_result(req[r].body, Now)
       IN  /\ req' = [req EXCEPT ![r].st = "returned",
                                 ![r].status = res.status,
                                 ![r].built = @ + res.built,
                                 ![r].scheduled = @ + res.scheduled]
           /\ task' = IF res.scheduled = 1
                      THEN [task EXCEPT ![r] = [NoTask EXCEPT
                                !.pc = "scheduled", !.event = res.event]]
                      ELSE task
    /\ loop' = r
    /\ UNCHANGED <<handlers, global_handlers, calls>>
    /\ UNCHANGED aside

\* The server writes the response of request r to the client. A background
\* task, if there is one, is run after that, and other tasks may run first.
SendResponse(r) ==
    /\ CanRun(r)
    /\ req[r].st = "returned"
    /\ req' = [req EXCEPT ![r].st = "sent"]
    /\ loop' = IF task[r].pc = "none" THEN r ELSE 0
    /\ UNCHANGED <<handlers, global_handlers, task, calls>>
    /\ UNCHANGED aside

\* Request r is over (answered, its dispatch finished if it had one): the
\* connection and the event are discarded.
Retire(r) ==
    /\ CanRun(r)
    /\ req[r].st = "sent"
    /\ task[r].pc \in {"none", "done", "failed"}
    /\ req' = [req EXCEPT ![r] = NoReq]
    /\ task' = [task EXCEPT ![r] = NoTask]
    /\ calls' = [calls EXCEPT ![r] = <<>>]
    /\ loop' = 0
    /\ UNCHANGED <<handlers, global_handlers>>
    /\ UNCHANGED pure

\* ----------------------------------------------------------- dispatcher
\* An endpoint that awaits process_event itself: the dispatch runs before
\* the endpoint returns.
awaited_inline_runs(r) == req[r].st = "returned"

\* BackgroundTasks.add_task: the call runs once the response has been sent.
add_task_runs(r) == req[r].st = "sent"

\* A lookup that files the default under the key
\* (self._handlers.setdefault(event.event, [])).
after_setdefault(hs, key) ==
    IF key.t = "str" /\ key.s \notin DOMAIN hs
    THEN hs @@ (key.s :> <<>>) ELSE hs

\* self._handlers after self._handlers.get(event.event, []): dict.get
\* stores nothing.
after_get(hs, key) == hs

\* process_event up to the first loop: the log line reads event.author.get
\* and the lookup hashes event.event; neither is guarded.
StartDispatch(r) ==
    /\ CanRun(r)
    /\ task[r].pc = "scheduled"
    /\ add_task_runs(r)
    /\ LET ev == task[r].event
           name == PyGet(ev.author, "name", JStr("Unknown"))
       IN  /\ task' = [task EXCEPT ![r] =
                IF ~name.ok \/ ~Hashable(ev.event)
                THEN [@ EXCEPT !.pc = "failed"]
                ELSE [@ EXCEPT !.pc = "keyed", !.i = 1,
                        !.fresh = ~(ev.event.t = "str"
                                    /\ ev.event.s \in DOMAIN handlers)]]
           /\ handlers' = IF ~name.ok \/ ~Hashable(ev.event)
                          THEN handlers
                          ELSE after_get(handlers, ev.event)
    /\ loop' = r
    /\ UNCHANGED <<global_handlers, req, calls>>
    /\ UNCHANGED pure

RECURSIVE Reverse(_)
Reverse(q) == IF q = <<>> THEN <<>> ELSE Append(Reverse(Tail(q)), Head(q))

\* A dispatcher that walks its lists backwards (for handler in
\* reversed(handlers)).
CurListReversed(r) ==
    Reverse(IF task[r].pc = "keyed"
            THEN IF task[r].fresh THEN <<>>
                 ELSE handlers[task[r].event.event.s]
            ELSE global_handlers)

\* The list the current for loop of dispatch r iterates: the registry's own
\* list object (it grows under the loop), or the fresh [] of .get's default.
CurList(r) ==
    IF task[r].pc = "keyed"
    THEN IF task[r].fresh THEN <<>> ELSE handlers[task[r].event.event.s]
    ELSE global_handlers

Looping(r) == task[r].pc \in {"keyed", "global"}

\* A for loop that stops after its first handler (a stray break or return).
ExhaustedEarly(r) == task[r].i > 1

\* The for loop's iterator has no further element: it compares its index
\* with the length the list has now.
Exhausted(r) == task[r].i > Len(CurList(r))

\* try/except around one invocation: what an outcome of the handler leads to.
\* "next": on to the next handler; "escape": an exception leaves
\* process_event (a BaseException, or the AttributeError of handler.__name__
\* raised inside the except clause).
AfterCall(h, out) ==
    CASE out \in {"returns", "returns_awaitable"} -> "next"
      [] out = "raises" -> IF HasName(h) THEN "next" ELSE "escape"
      [] out = "raises_base" -> "escape"
      [] out = "hangs" -> "never"

CallStatus(out) ==
    CASE out = "returns" -> "returned"
      [] out = "returns_awaitable" -> "unawaited"
      [] out = "raises" -> "raised"
      [] out = "raises_base" -> "raised_base"
      [] out = "hangs" -> "blocked"

Advance(t, h, out) ==
    CASE AfterCall(h, out) = "next" -> [t EXCEPT !.i = @ + 1]
      [] AfterCall(h, out) = "escape" -> [t EXCEPT !.pc = "failed"]
      [] OTHER -> t

\* handler(event), for a handler that is no coroutine function.
InvokeSync(r) ==
    /\ CanRun(r)
    /\ Looping(r) /\ ~InProgress(r)
    /\ task[r].i <= Len(CurList(r))
    /\ LET h == CurList(r)[task[r].i]
       IN  /\ ~iscoroutinefunction(h)
           /\ \E out \in SyncOutcomes :
                /\ calls' = [calls EXCEPT ![r] = Append(@,
                        [stage |-> task[r].pc, pos |-> task[r].i, h |-> h,
                         st |-> CallStatus(out)])]
                /\ task' = [task EXCEPT ![r] = Advance(@, h, out)]
    /\ loop' = r
    /\ UNCHANGED <<handlers, global_handlers, req>>
    /\ UNCHANGED aside

\* await handler(event), up to the handler's first suspension. A handler
\* that hangs stays suspended: EndAwait never happens for it.
BeginAwait(r) ==
    /\ CanRun(r)
    /\ Looping(r) /\ ~InProgress(r)
    /\ task[r].i <= Len(CurList(r))
    /\ LET h == CurList(r)[task[r].i]
       IN  /\ iscoroutinefunction(h)
           /\ calls' = [calls EXCEPT ![r] = Append(@,
                        [stage |-> task[r].pc, pos |-> task[r].i, h |-> h,
                         st |-> "running"])]
    /\ loop' = 0
    /\ UNCHANGED <<handlers, global_handlers, req, task>>
    /\ UNCHANGED aside

\* The awaited handler finishes and process_event resumes.
EndAwait(r) ==
    /\ ~Blocked
    /\ loop = 0
    /\ Looping(r)
    /\ calls[r] # <<>> /\ Last(calls[r]).st = "running"
    /\ \E out \in AwaitOutcomes :
            /\ calls' = [calls EXCEPT ![r][Len(calls[r])].st = CallStatus(out)]
            /\ task' = [task EXCEPT ![r] = Advance(@, Last(calls[r]).h, out)]
    /\ loop' = r
    /\ UNCHANGED <<handlers, global_handlers, req>>
    /\ UNCHANGED aside

\* A for loop finds no further element: the keyed loop gives way to the
\* global loop, the global loop to the end of process_event.
StageExhausted(r) ==
    /\ CanRun(r)
    /\ Looping(r) /\ ~InProgress(r)
    /\ Exhausted(r)
    /\ task' = [task EXCEPT ![r] =
            IF @.pc = "keyed" THEN [@ EXCEPT !.pc = "global", !.i = 1]
            ELSE [@ EXCEPT !.pc = "done"]]
    /\ loop' = r
    /\ UNCHANGED <<handlers, global_handlers, req, calls>>
    /\ UNCHANGED aside

\* Registration, by the application's setup code or by a handler, while the
\* registry holds fewer than n handlers.
Register(n) ==
    /\ NumRegs < n
    /\ \/ \E k \in Kinds, h \in Forms : register_handler(k, h)
       \/ \E h \in Forms : register_global_handler(h)

\* The steps of the endpoint and of the dispatcher that are the same with
\* and without the record of hist.
Handle ==
    \/ \E r \in Slots : webhook_handler(r)
    \/ \E r \in Slots : SendResponse(r)
    \/ \E r \in Slots : InvokeSync(r)
    \/ \E r \in Slots : BeginAwait(r)
    \/ \E r \in Slots : EndAwait(r)
    \/ \E r \in Slots : StageExhausted(r)

\* The steps the server process can take.
Serve ==
    \/ Register(MaxRegs)
    \/ Handle
    \/ \E r \in Slots : StartDispatch(r) /\ UNCHANGED <<hist, api>>
    \/ \E r \in Slots : Retire(r) /\ UNCHANGED <<hist, api>>

\* The server with requests arriving at the slots of S.
Step(S) ==
    \/ \E r \in S, b \in Bodies : Arrive(r, b)
    \/ Serve

Next == Step(ReqIds)
Spec == Init /\ [][Next]_vars

\* One more delivery may be in flight.
NextOverlap == Step(Slots)
SpecOverlap == Init /\ [][NextOverlap]_vars

\* What process_event finds when its call for request r begins: the length
\* of the list of the event's kind, of the global list, and of the registry.
Snapshot(r) ==
    LET kind == task[r].event.event
    IN  [k0 |-> IF kind.t = "str" /\ kind.s \in DOMAIN handlers
                THEN Len(handlers[kind.s]) ELSE 0,
         g0 |-> Len(global_handlers),
         n0 |-> NumRegs]

\* The server with that record kept for each dispatch, and room in the
\* registry for one more handler (two registered before a dispatch begins
\* and one during it).
NextHistory ==
    \/ \E r \in ReqIds, b \in Bodies : Arrive(r, b)
    \/ Register(MaxRegs + 1)
    \/ Handle
    \/ \E r \in Slots :
            /\ StartDispatch(r)
            /\ hist' = [hist EXCEPT ![r] = Snapshot(r)]
            /\ UNCHANGED api
    \/ \E r \in Slots :
            /\ Retire(r)
            /\ hist' = [hist EXCEPT ![r] = NoHist]
            /\ UNCHANGED api

SpecHistory == Init /\ [][NextHistory]_vars

\* The handler that dispatch r awaits writes to the event it was given
\* (event.data['seen'] = 1): WebhookEvent is a plain dataclass holding the
\* payload's own dict, and process_event hands the one object to every
\* handler.
HandlerMutatesEvent(r) ==
    /\ ~Blocked
    /\ loop = 0
    /\ Looping(r)
    /\ calls[r] # <<>> /\ Last(calls[r]).st = "running"
    /\ task[r].event.data.t = "obj"
    /\ "seen" \notin DOMAIN task[r].event.data.m
    /\ task' = [task EXCEPT ![r].event.data = JObj(("seen" :> JNum) @@ @.m)]
    /\ UNCHANGED <<handlers, global_handlers, req, calls, loop>>
    /\ UNCHANGED aside

\* The server with handlers that write to their event.
NextMutation ==
    \/ Next
    \/ \E r \in Slots : HandlerMutatesEvent(r)

SpecMutation == Init /\ [][NextMutation]_vars

\* ------------------------------------- KaitenWebhookServer registration
\* What a call of one of the server's four registration methods leaves in
\* api: the method, its arguments and its return value.
Called(op, event_type, func, ret) ==
    [op |-> op, kind |-> event_type, func |-> func, ret |-> ret]

\* A decorator of the usual kind: it registers and returns a wrapper around
\* the function it was given.
on_wrapping(event_type, func) ==
    /\ ~Blocked
    /\ handlers' = with_handler(handlers, event_type, "wrapper")
    /\ api' = Called("on", event_type, func, "wrapper")
    /\ UNCHANGED <<global_handlers, req, task, calls, loop, pure, hist>>

\* server.on(event_type)(func): the decorator hands func to the processor's
\* register_handler and returns it.
on(event_type, func) ==
    /\ ~Blocked
    /\ handlers' = with_handler(handlers, event_type, func)
    /\ api' = Called("on", event_type, func, func)
    /\ UNCHANGED <<global_handlers, req, task, calls, loop, pure, hist>>

\* server.on_any()(func).
on_any(func) ==
    /\ ~Blocked
    /\ global_handlers' = Append(global_handlers, func)
    /\ api' = Called("on_any", "", func, func)
    /\ UNCHANGED <<handlers, req, task, calls, loop, pure, hist>>

\* server.register_handler(event_type, handler); it returns None.
server_register_handler(event_type, handler) ==
    /\ ~Blocked
    /\ handlers' = with_handler(handlers, event_type, handler)
    /\ api' = Called("register_handler", event_type, handler, "None")
    /\ UNCHANGED <<global_handlers, req, task, calls, loop, pure, hist>>

\* server.register_global_handler(handler); it returns None.
server_register_global_handler(handler) ==
    /\ ~Blocked
    /\ global_handlers' = Append(global_handlers, handler)
    /\ api' = Called("register_global_handler", "", handler, "None")
    /\ UNCHANGED <<handlers, req, task, calls, loop, pure, hist>>

\* The application registering its handlers through the server object.
NextApi ==
    /\ NumRegs < MaxRegs
    /\ \/ \E k \in Kinds, f \in Forms : on(k, f)
       \/ \E f \in Forms : on_any(f)
       \/ \E k \in Kinds, h \in Forms : server_register_handler(k, h)
       \/ \E h \in Forms : server_register_global_handler(h)

SpecApi == Init /\ [][NextApi]_vars

\* ------------------------------------------------ from_payload alone
JsonScalars == {JNull, JNum, JList, JStr("x")}
Authors == JsonScalars \cup {EmptyObj, JObj("name" :> JStr("n"))}
Datas == JsonScalars \cup {EmptyObj, JObj("text" :> JStr("hi"))}
            \cup {JObj("author" :> a) : a \in Authors}
EventFields == {JNull, JNum, JList, EmptyObj, JStr(""), JStr("a")}
\* JSON objects as a webhook body can decode to.
Payloads ==
    {EmptyObj}
    \cup {JObj("event" :> e) : e \in EventFields}
    \cup {JObj("data" :> d) : d \in Datas}
    \cup {JObj(("event" :> e) @@ ("data" :> d)) : e \in EventFields, d \in Datas}

InitPure ==
    /\ InitServer
    /\ payload \in Payloads
    /\ result = NotBuilt

Build ==
    /\ result = NotBuilt
    /\ result' = from_payload(payload, Now)
    /\ UNCHANGED <<server, payload, hist, api>>

NextPure == Build
SpecPure == InitPure /\ [][NextPure]_vars

\* ---------------------------------------------------------------- claims
Unfinished == {"running", "blocked"}

\* The kind under which dispatch r looked its handlers up.
KindOf(r) == task[r].event.event.s

NumKeyed(r) == Len(SelectSeq(calls[r], LAMBDA c : c.stage = "keyed"))

\* Handlers dispatch r has still to invoke after the one at its index: the
\* rest of the current list and, from the keyed loop, the global list.
HandlersRemain(r) ==
    \/ task[r].i < Len(CurList(r))
    \/ task[r].pc = "keyed" /\ global_handlers # <<>>

\* The step in which an invocation of dispatch r ends by raising an
\* ordinary Exception.
FailsNow(r) ==
    /\ Looping(r)
    /\ calls'[r] # <<>>
    /\ Last(calls'[r]).st = "raised"
    /\ calls[r] = <<>> \/ Len(calls'[r]) > Len(calls[r])
                       \/ Last(calls[r]).st = "running"

\* C1: failure isolation. Whenever a handler invocation raises while handlers
\* registered after it (same kind, or global) are still to be invoked, the
\* dispatch goes on to them: the failure does not end process_event.
C1_FailureIsolation ==
    [][\A r \in Slots :
          FailsNow(r) /\ HandlersRemain(r) => task'[r].pc # "failed"]_vars

\* C2: process_event never fails outward: no exception leaves a
\* process_event call, whatever event from_payload built and whatever the
\* registry holds.
C2_NeverFailsOutward == \A r \in Slots : task[r].pc # "failed"

\* C3: the handlers of the event's kind are invoked in registration order
\* (the j-th invocation is of the j-th handler registered for the kind) and
\* one at a time (every invocation but the latest has ended).
C3_KeyedInOrder ==
    \A r \in Slots : \A j \in 1..Len(calls[r]) :
        /\ j < Len(calls[r]) => calls[r][j].st \notin Unfinished
        /\ calls[r][j].stage = "keyed" =>
              /\ calls[r][j].pos = j
              /\ KindOf(r) \in DOMAIN handlers
              /\ j <= Len(handlers[KindOf(r)])
              /\ calls[r][j].h = handlers[KindOf(r)][j]

\* Dispatch r has invoked two differently-shaped handlers of its kind.
C3_Witness ==
    \E r \in Slots :
        /\ Len(calls[r]) >= 2
        /\ calls[r][2].stage = "keyed"
        /\ calls[r][1].h # calls[r][2].h
        /\ calls[r][2].st \notin Unfinished

\* C4: no global handler begins before every handler registered for the
\* event's kind has been invoked and has finished, no keyed handler runs
\* after a global one, and the global handlers run in registration order.
C4_GlobalAfterKeyed ==
    /\ [](\A r \in Slots : \A j \in 1..Len(calls[r]) :
            calls[r][j].stage = "global" =>
              /\ \A k \in 1..(j - 1) : calls[r][k].st \notin Unfinished
              /\ \A k \in j..Len(calls[r]) : calls[r][k].stage = "global"
              /\ calls[r][j].pos = j - NumKeyed(r)
              /\ calls[r][j].pos <= Len(global_handlers)
              /\ calls[r][j].h = global_handlers[calls[r][j].pos])
    /\ [][\A r \in Slots :
            task[r].pc = "keyed" /\ task'[r].pc = "global" =>
              /\ ~InProgress(r)
              /\ NumKeyed(r) = Len(CurList(r))]_vars

\* Dispatch r ran a keyed handler and then a global one.
C4_Witness ==
    \E r \in Slots :
        /\ Len(calls[r]) >= 2
        /\ calls[r][1].stage = "keyed"
        /\ calls[r][2].stage = "global"
        /\ calls[r][2].st \notin Unfinished

\* C5: a handler runs for a request only after that request's response
\* (200) has been sent.
C5_ResponseBeforeHandlers ==
    \A r \in Slots :
        calls[r] # <<>> => req[r].st = "sent" /\ req[r].status = 200

\* A handler has been invoked for an answered request.
C5_Witness ==
    \E r \in Slots : calls[r] # <<>> /\ req[r].st = "sent"

\* The request in slot r has reached the server and has no response yet.
AwaitsResponse(r) == req[r].st \in {"received", "returned"}
\* The endpoint has answered the request in slot r.
Answered(r) == req[r].st \in {"returned", "sent"}

\* C6: a request carrying valid JSON gets its 200 response even if a handler
\* never terminates: while a request that the endpoint answers 200 waits for
\* its response the server is never stuck, it can always take a further step.
C6_ValidRequestAnswered ==
    \A r \in Slots :
        /\ AwaitsResponse(r)
        /\ json_loads(req[r].body).ok
        /\ webhook_result(req[r].body, Now).status = 200
        => ENABLED Serve

\* C7: a handler of one event that never returns blocks only that event:
\* while an invocation of dispatch r1 is unfinished, another dispatch r2 that
\* is scheduled or between two handlers can still go on (the server can take
\* a step).
C7_OtherEventsProgress ==
    \A r1 \in Slots, r2 \in Slots :
        /\ r1 # r2
        /\ InProgress(r1)
        /\ task[r2].pc \in {"scheduled", "keyed", "global"}
        /\ ~InProgress(r2)
        => ENABLED Serve

\* C8: a request whose body is not valid JSON is answered 400, and neither
\* from_payload nor process_event nor any handler runs for it.
C8_InvalidJson400 ==
    \A r \in Slots :
        Answered(r) /\ ~json_loads(req[r].body).ok =>
            /\ req[r].status = 400
            /\ req[r].built = 0
            /\ req[r].scheduled = 0
            /\ task[r].pc = "none"
            /\ calls[r] = <<>>

\* C9: a request whose body decodes as JSON, whatever the decoded value, has
\* an Event built, exactly one dispatch scheduled, and is answered 200.
C9_ValidJson200 ==
    \A r \in Slots :
        Answered(r) /\ json_loads(req[r].body).ok =>
            /\ req[r].status = 200
            /\ req[r].built = 1
            /\ req[r].scheduled = 1

\* C10: from_payload never fails on a JSON object, and gives kind =
\* payload['event'] if a string else "", data = payload['data'] if a mapping
\* else {}, author = data['author'] if a mapping else {}.
C10_FromPayloadDefaults ==
    result # NotBuilt =>
        /\ result.ok
        /\ result.v.event =
              IF "event" \in DOMAIN payload.m /\ payload.m["event"].t = "str"
              THEN payload.m["event"] ELSE JStr("")
        /\ LET d == IF "data" \in DOMAIN payload.m
                       /\ payload.m["data"].t = "obj"
                    THEN payload.m["data"] ELSE EmptyObj
           IN  /\ result.v.data = d
               /\ result.v.author =
                     IF "author" \in DOMAIN d.m /\ d.m["author"].t = "obj"
                     THEN d.m["author"] ELSE EmptyObj

\* The body of request r decoded to a JSON object with no 'event' field.
NoEventField(r) ==
    /\ req[r].st # "idle"
    /\ json_loads(req[r].body).ok
    /\ json_loads(req[r].body).v.t = "obj"
    /\ "event" \notin DOMAIN json_loads(req[r].body).v.m

\* C11 as stated: the Event built from a payload with no 'event' field has
\* kind "" and its dispatch invokes only global handlers.
C11_OnlyGlobalHandlers ==
    \A r \in Slots :
        NoEventField(r) /\ task[r].pc # "none" =>
            /\ task[r].event.event = JStr("")
            /\ \A j \in 1..Len(calls[r]) : calls[r][j].stage = "global"

\* C11: the Event built from a payload with no 'event' field has kind "",
\* and its dispatch invokes only the handlers registered for kind "" and the
\* global handlers.
C11_EmptyKindRouting ==
    \A r \in Slots :
        NoEventField(r) /\ task[r].pc # "none" =>
            /\ task[r].event.event = JStr("")
            /\ \A j \in 1..Len(calls[r]) :
                  \/ /\ calls[r][j].stage = "keyed"
                     /\ "" \in DOMAIN handlers
                     /\ calls[r][j].pos <= Len(handlers[""])
                     /\ calls[r][j].h = handlers[""][calls[r][j].pos]
                  \/ /\ calls[r][j].stage = "global"
                     /\ calls[r][j].pos <= Len(global_handlers)
                     /\ calls[r][j].h = global_handlers[calls[r][j].pos]

\* The dispatch of a payload with no 'event' field has run a handler
\* registered for kind "" and then a global handler.
C11_Witness ==
    \E r \in Slots :
        /\ NoEventField(r)
        /\ Len(calls[r]) >= 2
        /\ calls[r][1].stage = "keyed"
        /\ calls[r][2].stage = "global"
        /\ calls[r][2].st \notin Unfinished

\* The handlers registered for the kind of dispatch r's event.
KeyedFor(r) ==
    LET kind == task[r].event.event
    IN  IF kind.t = "str" /\ kind.s \in DOMAIN handlers
        THEN handlers[kind.s] ELSE <<>>

\* Dispatch r has invoked each registration of its kind once, in order, and
\* then each global registration once, and nothing else.
InvokedEachOnce(r) ==
    /\ Len(calls[r]) = Len(KeyedFor(r)) + Len(global_handlers)
    /\ \A j \in 1..Len(calls[r]) :
          IF j <= Len(KeyedFor(r))
          THEN /\ calls[r][j].stage = "keyed"
               /\ calls[r][j].h = KeyedFor(r)[j]
          ELSE /\ calls[r][j].stage = "global"
               /\ calls[r][j].h = global_handlers[j - Len(KeyedFor(r))]

\* The step in which the process_event call of request r ends, by returning
\* or by an exception leaving it.
Ends(r) ==
    /\ task[r].pc \in {"scheduled", "keyed", "global"}
    /\ task'[r].pc \in {"done", "failed"}

\* C12: routing is exact. When a process_event call ends and nothing was
\* registered since it began, it has invoked each registration of the
\* event's kind and each global registration exactly once, and no other
\* handler.
C12_RoutingExact ==
    [][\A r \in Slots :
          Ends(r) /\ NumRegs' = hist'[r].n0 => InvokedEachOnce(r)']_vars

\* C13: every handler whose invocation yields an awaitable is awaited to
\* completion before the next handler starts, whatever the form of the
\* registered callable: no invocation is left with its awaitable unawaited,
\* and every invocation but the latest has ended.
C13_AwaitablesAwaited ==
    \A r \in Slots : \A j \in 1..Len(calls[r]) :
        /\ calls[r][j].st # "unawaited"
        /\ j < Len(calls[r]) => calls[r][j].st \notin Unfinished

\* The registry after register_handler(kind, f) of the processor.
AfterRegisterHandler(kind, f) ==
    /\ handlers' = with_handler(handlers, kind, f)
    /\ global_handlers' = global_handlers

\* The registry after register_global_handler(f) of the processor.
AfterRegisterGlobal(f) ==
    /\ global_handlers' = Append(global_handlers, f)
    /\ handlers' = handlers

\* C14: server.on(kind)(f) returns f itself and changes the registry exactly
\* as server.register_handler(kind, f) does (the registry after either is the
\* one after the processor's register_handler(kind, f)); server.on_any()(f)
\* returns f itself and changes the registry exactly as
\* server.register_global_handler(f) does.
C14_DecoratorEquivalence ==
    [][/\ api'.op \in {"on", "register_handler"} =>
            AfterRegisterHandler(api'.kind, api'.func)
       /\ api'.op \in {"on_any", "register_global_handler"} =>
            AfterRegisterGlobal(api'.func)
       /\ api'.op \in {"on", "on_any"} => api'.ret = api'.func]_vars

\* server.on(kind)(f) was called for a kind that already had a handler of
\* another form: f is the second of the kind's list, and is what on returned.
C14_Witness ==
    /\ api.op = "on"
    /\ api.kind \in DOMAIN handlers
    /\ Len(handlers[api.kind]) = 2
    /\ handlers[api.kind][2] = api.func
    /\ handlers[api.kind][1] # api.func
    /\ api.ret = api.func

IsPrefix(a, b) == Len(a) <= Len(b) /\ SubSeq(b, 1, Len(a)) = a

\* The list of kind k is not in the next state what it is in this one.
ListChanges(k) == k \notin DOMAIN handlers \/ handlers'[k] # handlers[k]

\* C15: the registry only grows by appending. In every step of the server
\* (registration, endpoint, dispatch) each kind keeps its list with the
\* earlier content as a prefix, so does the global list, and a step changes
\* at most one list, by at most one handler.
C15_AppendOnly ==
    [][/\ \A k \in DOMAIN handlers :
            k \in DOMAIN handlers' /\ IsPrefix(handlers[k], handlers'[k])
       /\ IsPrefix(global_handlers, global_handlers')
       /\ \A k1 \in DOMAIN handlers', k2 \in DOMAIN handlers' :
            ListChanges(k1) /\ ListChanges(k2) => k1 = k2
       /\ handlers' # handlers => global_handlers' = global_handlers
       /\ NumRegs' <= NumRegs + 1]_vars

\* A handler was registered twice for one kind, both registrations are
\* kept, and a dispatch has run to its end.
C15_Witness ==
    /\ \E k \in DOMAIN handlers :
            /\ Len(handlers[k]) = 2
            /\ handlers[k][1] = handlers[k][2]
    /\ \E r \in Slots : task[r].pc = "done"

\* A step of the process_event call of request r.
DispatchStep(r) ==
    /\ task[r].pc \in {"scheduled", "keyed", "global"}
    /\ task'[r] # task[r] \/ calls'[r] # calls[r]

\* C16: handler lookup is read-only. No step of a process_event call changes
\* the registry, and the registry never holds a kind without a handler:
\* dispatching an event whose kind has no handler creates no entry.
C16_LookupReadOnly ==
    /\ [](\A k \in DOMAIN handlers : handlers[k] # <<>>)
    /\ [][\A r \in Slots :
            DispatchStep(r) =>
                /\ handlers' = handlers
                /\ global_handlers' = global_handlers]_vars

\* An event whose kind has no handler was dispatched to the end, and the
\* registry has no entry for the kind.
C16_Witness ==
    \E r \in Slots :
        /\ task[r].pc = "done"
        /\ task[r].event.event.t = "str"
        /\ task[r].event.event.s \notin DOMAIN handlers
        /\ handlers # <<>>

\* Dispatch r has invoked every handler that was registered for its kind or
\* globally when it began, once each and in registration order: its j-th
\* keyed invocation is of the j-th handler of the kind, its j-th global
\* invocation of the j-th global handler.
RegisteredBeforeInvoked(r) ==
    /\ NumKeyed(r) >= hist[r].k0
    /\ \A j \in 1..hist[r].k0 :
          /\ calls[r][j].stage = "keyed"
          /\ calls[r][j].pos = j
          /\ calls[r][j].h = KeyedFor(r)[j]
    /\ Len(calls[r]) - NumKeyed(r) >= hist[r].g0
    /\ \A j \in 1..hist[r].g0 :
          /\ calls[r][NumKeyed(r) + j].stage = "global"
          /\ calls[r][NumKeyed(r) + j].pos = j
          /\ calls[r][NumKeyed(r) + j].h = global_handlers[j]

\* No handler of dispatch r raised a BaseException (SystemExit,
\* CancelledError), which process_event does not mean to catch.
NoBaseException(r) ==
    \A j \in 1..Len(calls[r]) : calls[r][j].st # "raised_base"

\* C17: registration interleaved with a dispatch is safe. When a
\* process_event call ends and a handler was registered while it was under
\* way, every handler registered before the call began has been invoked
\* exactly once, in registration order (handlers raise nothing but ordinary
\* Exceptions).
C17_InterleavedRegistrationSafe ==
    [][\A r \in Slots :
          Ends(r) /\ NumRegs' > hist'[r].n0 /\ NoBaseException(r)' =>
              RegisteredBeforeInvoked(r)']_vars

\* The handlers dispatch r has still to invoke: the rest of the list its
\* loop is walking and, from the keyed loop, the global list.
Remaining(r) ==
    (Len(CurList(r)) + 1 - task[r].i)
    + (IF task[r].pc = "keyed" THEN Len(global_handlers) ELSE 0)

\* C18: every dispatch runs to completion, also when its handlers register
\* further handlers. While a handler of a process_event call runs, the
\* handlers the call has still to invoke do not become more, so that a call
\* whose handlers all terminate ends after finitely many invocations.
C18_DispatchWorkBounded ==
    [][\A r \in Slots :
          Looping(r) /\ InProgress(r) /\ Looping(r)' =>
              Remaining(r)' <= Remaining(r)]_vars

\* C19: the Event is never mutated after construction. Every handler that a
\* dispatch invokes is given an Event with the kind, author and data that
\* from_payload produced from the request's body, whatever the handlers
\* invoked before it did with the Event.
C19_EventNeverMutated ==
    [][\A r \in Slots :
          Len(calls'[r]) > Len(calls[r]) =>
              LET built == webhook_result(req[r].body, Now).event
              IN  /\ task[r].event.event = built.event
                  /\ task[r].event.author = built.author
                  /\ task[r].event.data = built.data]_vars

\* C20: response status and scheduling agree. A request is answered 200, 400
\* or 500; a dispatch has been scheduled for it if and only if it is
\* answered 200, and then exactly one; a request answered 400 or 500, or not
\* answered yet, has no dispatch and no handler invocation.
C20_StatusAndSchedulingAgree ==
    \A r \in Slots :
        /\ req[r].scheduled <= 1
        /\ Answered(r) =>
              /\ req[r].status \in {200, 400, 500}
              /\ req[r].scheduled = 1 <=> req[r].status = 200
              /\ task[r].pc # "none" <=> req[r].status = 200
        /\ ~(Answered(r) /\ req[r].status = 200) =>
              /\ req[r].scheduled = 0
              /\ task[r].pc = "none"
              /\ calls[r] = <<>>

\* A request whose Event could not be built was answered 500 and has no
\* dispatch.
C20_Witness ==
    \E r \in Slots :
        /\ req[r].st = "sent"
        /\ req[r].status = 500
        /\ req[r].built = 1
        /\ task[r].pc = "none"
====
